---- MODULE Spec2Model ----
(***************************************************************************)
(* Model of OAS/joe.py: fetch a published document, parse its first table  *)
(* into Cells (x, ch, y), build the character grid and print it.           *)
(*                                                                         *)
(* A text (a Python str) is a sequence of one-character strings.  The      *)
(* document tree that BeautifulSoup hands back is represented by what the  *)
(* program reads from it: whether a <table> exists, the list of its <tr>   *)
(* rows, and for each row the get_text() of each of its <td>/<th> cells.   *)
(***************************************************************************)
EXTENDS Integers, Sequences, FiniteSets, TLC

VARIABLES resp, pc, run, gets, i, cells, max_x, max_y, grid, k, p, out, err, first

vars == <<resp, pc, run, gets, i, cells, max_x, max_y, grid, k, p, out, err, first>>

(* ------------------------------ bounds --------------------------------- *)

\* longest raw cell text of the free-text rows
MaxTextLen == 3
\* most data rows (rows after the header) of the structured tables
MaxDataRows == 3

(* ------------------------------ texts ---------------------------------- *)

\* U+00A0, the non-breaking space
NBSP == "nbsp"
SP == " "
NL == "\n"

Alphabet == {"0", "1", "-", "+", "_", "a", SP, NBSP, NL}

\* what the regular expression \s and str.strip() treat as whitespace
IsSpace(c) == c \in {SP, NL, NBSP}

Digits == {"0", "1", "2"}

DigitVal(c) == CASE c = "0" -> 0 [] c = "1" -> 1 [] c = "2" -> 2

\* s.replace(" ", " ")
ReplaceNbsp(s) == [j \in 1..Len(s) |-> IF s[j] = NBSP THEN SP ELSE s[j]]

\* re.sub(r"\s+", " ", s): every maximal run of whitespace becomes one space
RECURSIVE CollapseWs(_)
CollapseWs(s) ==
    IF s = <<>> THEN <<>>
    ELSE IF IsSpace(Head(s))
         THEN IF Len(s) > 1 /\ IsSpace(s[2])
              THEN CollapseWs(Tail(s))
              ELSE <<SP>> \o CollapseWs(Tail(s))
         ELSE <<Head(s)>> \o CollapseWs(Tail(s))

RECURSIVE LStrip(_)
LStrip(s) == IF s # <<>> /\ IsSpace(Head(s)) THEN LStrip(Tail(s)) ELSE s

RECURSIVE RStrip(_)
RStrip(s) ==
    IF s # <<>> /\ IsSpace(s[Len(s)]) THEN RStrip(SubSeq(s, 1, Len(s) - 1)) ELSE s

\* str.strip()
Strip(s) == RStrip(LStrip(s))

clean_text(s) == Strip(CollapseWs(ReplaceNbsp(s)))

\* the digits part of an int() literal: digits, single underscores only
\* between two digits.  Scanned left to right; acc is the value so far.
RECURSIVE ScanDigits(_, _, _)
ScanDigits(s, acc, prevDigit) ==
    IF s = <<>> THEN [ok |-> prevDigit, val |-> acc]
    ELSE IF Head(s) \in Digits
         THEN ScanDigits(Tail(s), acc * 10 + DigitVal(Head(s)), TRUE)
         ELSE IF Head(s) = "_" /\ prevDigit /\ Len(s) > 1 /\ s[2] \in Digits
              THEN ScanDigits(Tail(s), acc, FALSE)
              ELSE [ok |-> FALSE, val |-> 0]

\* int(s): surrounding whitespace dropped, optional sign, then the digits.
\* ok = FALSE stands for ValueError.
PyInt(s) ==
    LET t == Strip(s) IN
    IF t = <<>> THEN [ok |-> FALSE, val |-> 0]
    ELSE IF Head(t) = "-"
         THEN LET r == ScanDigits(Tail(t), 0, FALSE)
              IN  [ok |-> r.ok, val |-> 0 - r.val]
         ELSE IF Head(t) = "+"
              THEN ScanDigits(Tail(t), 0, FALSE)
              ELSE ScanDigits(t, 0, FALSE)

\* next((c for c in ch if c != " "), ch[0])
RECURSIVE FirstNonSpace(_, _)
FirstNonSpace(ch, dflt) ==
    IF ch = <<>> THEN dflt
    ELSE IF Head(ch) # SP THEN Head(ch) ELSE FirstNonSpace(Tail(ch), dflt)

\* mutant: a longer text is kept whole
PickCharWhole(ch_txt) == IF ch_txt # <<>> THEN ch_txt ELSE <<SP>>

\* the character of a Cell, from the normalized text of the character cell
PickChar(ch_txt) ==
    LET ch == IF ch_txt # <<>> THEN ch_txt ELSE <<SP>> IN
    IF Len(ch) > 1 THEN <<FirstNonSpace(ch, ch[1])>> ELSE ch

Cell(x, y, ch) == [x |-> x, y |-> y, ch |-> ch]

(* ------------------------------ inputs --------------------------------- *)

RECURSIVE TextsUpTo(_)
TextsUpTo(n) ==
    IF n = 0 THEN {<<>>}
    ELSE LET T == TextsUpTo(n - 1)
         IN  T \cup {Append(t, c) : t \in {u \in T : Len(u) = n - 1}, c \in Alphabet}

Texts == TextsUpTo(MaxTextLen)

\* a header row that does not parse and one that would
Headers == { << <<"a">>, <<"a">>, <<"a">> >>, << <<"1">>, <<"a">>, <<"1">> >> }

DataRows ==
    { << <<"0">>, <<"a">>, <<"0">> >>,
      << <<"0">>, <<"b">>, <<"0">> >>,
      << <<"1">>, <<"b">>, <<"1">> >>,
      << <<"-", "1">>, <<"a">>, <<"-", "2">> >>,
      << <<"-", "2">>, <<"b">>, <<"0">> >>,
      << <<"0">>, <<"a">> >>,
      << <<>>, <<"a">>, <<"0">> >>,
      << <<"0">>, <<"a">>, <<"a">> >>,
      << <<"1">>, <<"a">>, <<"0">>, <<"b">> >> }

RECURSIVE RowSeqs(_)
RowSeqs(n) ==
    IF n = 0 THEN {<<>>}
    ELSE LET R == RowSeqs(n - 1)
         IN  R \cup {Append(r, d) : r \in {u \in R : Len(u) = n - 1}, d \in DataRows}

Doc(table, rows) == [table |-> table, rows |-> rows]

NoTableDoc == Doc(FALSE, <<>>)

\* tables built from the sample rows: no row at all, or a header and data rows
StructDocs ==
    {NoTableDoc, Doc(TRUE, <<>>)}
      \cup {Doc(TRUE, <<h>> \o r) : h \in Headers, r \in RowSeqs(MaxDataRows)}

FixedRow == << <<"1">>, <<"b">>, <<"0">> >>

\* a header, then one row with one free text among its three cells, placed
\* before or after a row that is known to parse
FreeRows ==
    {<<t, <<"a">>, <<"0">> >> : t \in Texts}
      \cup {<< <<"0">>, t, <<"0">> >> : t \in Texts}
      \cup {<< <<"0">>, <<"a">>, t>> : t \in Texts}

TextDocs ==
    {Doc(TRUE, << <<<<"a">>, <<"a">>, <<"a">>>>, r, FixedRow >>) : r \in FreeRows}
      \cup {Doc(TRUE, << <<<<"a">>, <<"a">>, <<"a">>>>, r >>) : r \in FreeRows}

\* final status codes of the response
Statuses == {200, 204, 300, 404, 500}

SmallDocs ==
    {NoTableDoc} \cup {Doc(TRUE, <<h, d>>) : h \in Headers, d \in DataRows}

Response(ok, status, doc) == [ok |-> ok, status |-> status, doc |-> doc]

\* ok = FALSE: requests.get raised (DNS, connection, timeout)
Responses ==
    {Response(FALSE, 0, NoTableDoc)}
      \cup {Response(TRUE, 200, d) : d \in StructDocs \cup TextDocs}
      \cup {Response(TRUE, s, d) : s \in Statuses \ {200}, d \in SmallDocs}

(* ------------------------------ program -------------------------------- *)

\* Response.raise_for_status(): HTTPError for 4xx and 5xx
RaisesForStatus(status) == 400 <= status /\ status < 600

Max(S) == CHOOSE m \in S : \A n \in S : n <= m

\* number of elements of range(n)
RangeLen(n) == IF n > 0 THEN n ELSE 0

\* "".join(row)
RECURSIVE Join(_)
Join(row) ==
    IF row = <<>> THEN <<>>
    ELSE IF Len(row) = 1 THEN row[1]
         ELSE LET h == Len(row) \div 2
              IN  Join(SubSeq(row, 1, h)) \o Join(SubSeq(row, h + 1, Len(row)))

Init ==
    /\ resp \in Responses
    /\ pc = "fetch"
    /\ run = 1
    /\ gets = 0
    /\ i = 0
    /\ cells = <<>>
    /\ max_x = 0
    /\ max_y = 0
    /\ grid = <<>>
    /\ k = 0
    /\ p = 0
    /\ out = <<>>
    /\ err = "none"
    /\ first = [out |-> <<>>, err |-> "none", cells |-> <<>>]

Fail(e) == pc' = "failed" /\ err' = e

\* requests.get raises: the error propagates
FetchTransportError ==
    /\ pc = "fetch"
    /\ ~resp.ok
    /\ gets' = gets + 1
    /\ Fail("FetchError")
    /\ UNCHANGED <<resp, run, i, cells, max_x, max_y, grid, k, p, out, first>>

\* raise_for_status raises
FetchBadStatus ==
    /\ pc = "fetch"
    /\ resp.ok
    /\ RaisesForStatus(resp.status)
    /\ gets' = gets + 1
    /\ Fail("FetchError")
    /\ UNCHANGED <<resp, run, i, cells, max_x, max_y, grid, k, p, out, first>>

FetchOk ==
    /\ pc = "fetch"
    /\ resp.ok
    /\ ~RaisesForStatus(resp.status)
    /\ gets' = gets + 1
    /\ pc' = "parse"
    /\ UNCHANGED <<resp, run, i, cells, max_x, max_y, grid, k, p, out, err, first>>

ParseNoTable ==
    /\ pc = "parse"
    /\ ~resp.doc.table
    /\ Fail("NoTable")
    /\ UNCHANGED <<resp, run, gets, i, cells, max_x, max_y, grid, k, p, out, first>>

\* not (not rows or len(rows) < 2)
HasDataRows(rows) == rows # <<>> /\ Len(rows) >= 2

ParseNoDataRows ==
    /\ pc = "parse"
    /\ resp.doc.table
    /\ ~HasDataRows(resp.doc.rows)
    /\ Fail("NoDataRows")
    /\ UNCHANGED <<resp, run, gets, i, cells, max_x, max_y, grid, k, p, out, first>>

\* mutant: the list of Cells outlives the call (a mutable default argument)
ParseBeginKeepsCells ==
    /\ pc = "parse"
    /\ resp.doc.table
    /\ HasDataRows(resp.doc.rows)
    /\ i' = 2
    /\ pc' = "rows"
    /\ UNCHANGED <<resp, run, gets, cells, max_x, max_y, grid, k, p, out, err, first>>

\* mutant: the loop starts at rows[0:]
ParseBeginAtHeader ==
    /\ pc = "parse"
    /\ resp.doc.table
    /\ HasDataRows(resp.doc.rows)
    /\ cells' = <<>>
    /\ i' = 1
    /\ pc' = "rows"
    /\ UNCHANGED <<resp, run, gets, max_x, max_y, grid, k, p, out, err, first>>

\* cells = [], the loop starts at rows[1:]
ParseBegin ==
    /\ pc = "parse"
    /\ resp.doc.table
    /\ HasDataRows(resp.doc.rows)
    /\ cells' = <<>>
    /\ i' = 2
    /\ pc' = "rows"
    /\ UNCHANGED <<resp, run, gets, max_x, max_y, grid, k, p, out, err, first>>

InLoop == pc = "rows" /\ i <= Len(resp.doc.rows)

tds == resp.doc.rows[i]
x_txt == clean_text(tds[1])
ch_txt == clean_text(tds[2])
y_txt == clean_text(tds[3])

NextRow ==
    /\ i' = i + 1
    /\ UNCHANGED <<resp, pc, run, gets, max_x, max_y, grid, k, p, out, err, first>>

SkipShortRow ==
    /\ InLoop
    /\ Len(tds) < 3
    /\ cells' = cells
    /\ NextRow

SkipEmptyCoord ==
    /\ InLoop
    /\ Len(tds) >= 3
    /\ (x_txt = <<>> \/ y_txt = <<>>)
    /\ cells' = cells
    /\ NextRow

\* mutant: no try/except, the ValueError of int() propagates
SkipNonNumericRaises ==
    /\ InLoop
    /\ Len(tds) >= 3
    /\ x_txt # <<>> /\ y_txt # <<>>
    /\ (~PyInt(x_txt).ok \/ ~PyInt(y_txt).ok)
    /\ Fail("ValueError")
    /\ UNCHANGED <<resp, run, gets, i, cells, max_x, max_y, grid, k, p, out, first>>

SkipNonNumeric ==
    /\ InLoop
    /\ Len(tds) >= 3
    /\ x_txt # <<>> /\ y_txt # <<>>
    /\ (~PyInt(x_txt).ok \/ ~PyInt(y_txt).ok)
    /\ cells' = cells
    /\ NextRow

AppendCell ==
    /\ InLoop
    /\ Len(tds) >= 3
    /\ x_txt # <<>> /\ y_txt # <<>>
    /\ PyInt(x_txt).ok /\ PyInt(y_txt).ok
    /\ cells' = Append(cells, Cell(PyInt(x_txt).val, PyInt(y_txt).val, PickChar(ch_txt)))
    /\ NextRow

\* mutant: the emptiness check is gone
NoCellsNever(cs) == FALSE

\* not cells
NoCells(cs) == cs = <<>>

ParseNoValidRows ==
    /\ pc = "rows"
    /\ i > Len(resp.doc.rows)
    /\ NoCells(cells)
    /\ Fail("NoValidRows")
    /\ UNCHANGED <<resp, run, gets, i, cells, max_x, max_y, grid, k, p, out, first>>

\* mutant: the two dimensions exchanged
BlankGridTransposed(mx, my) ==
    [r \in 1..RangeLen(mx + 1) |-> [c \in 1..RangeLen(my + 1) |-> <<SP>>]]

\* [[" " for _ in range(mx + 1)] for _ in range(my + 1)]
BlankGrid(mx, my) ==
    [r \in 1..RangeLen(my + 1) |-> [c \in 1..RangeLen(mx + 1) |-> <<SP>>]]

\* the parser returns; max_x, max_y and the blank grid.  max() of an empty
\* sequence raises ValueError.
BuildGrid ==
    /\ pc = "rows"
    /\ i > Len(resp.doc.rows)
    /\ ~NoCells(cells)
    /\ IF cells = <<>>
       THEN /\ Fail("MaxOfEmpty")
            /\ UNCHANGED <<max_x, max_y, grid, k>>
       ELSE LET mx == Max({cells[j].x : j \in 1..Len(cells)})
                my == Max({cells[j].y : j \in 1..Len(cells)})
            IN  /\ max_x' = mx
                /\ max_y' = my
                /\ grid' = BlankGrid(mx, my)
                /\ k' = 1
                /\ pc' = "populate"
                /\ err' = err
    /\ UNCHANGED <<resp, run, gets, i, cells, p, out, first>>

\* mutant: only the upper bounds are tested
InBoundsAbove(c) == c.x <= max_x /\ c.y <= max_y

\* 0 <= c.x <= max_x and 0 <= c.y <= max_y
InBounds(c) == 0 <= c.x /\ c.x <= max_x /\ 0 <= c.y /\ c.y <= max_y

\* a Python list index: negative indices count from the end
IndexOk(n, j) == 0 - n <= j /\ j < n
PyIndex(n, j) == IF j < 0 THEN n + j + 1 ELSE j + 1

\* mutant: a position already written is kept
PlaceCellFirstWins ==
    /\ pc = "populate"
    /\ k <= Len(cells)
    /\ InBounds(cells[k])
    /\ LET c == cells[k]
           r == max_y - c.y
       IN  /\ grid' = IF grid[r + 1][c.x + 1] = <<SP>>
                       THEN [grid EXCEPT ![r + 1][c.x + 1] = c.ch]
                       ELSE grid
           /\ k' = k + 1
    /\ UNCHANGED <<resp, pc, run, gets, i, cells, max_x, max_y, p, out, err, first>>

\* grid[max_y - c.y][c.x] = c.ch
PlaceCell ==
    /\ pc = "populate"
    /\ k <= Len(cells)
    /\ InBounds(cells[k])
    /\ LET c == cells[k]
           r == max_y - c.y
       IN  IF IndexOk(Len(grid), r) /\ IndexOk(Len(grid[PyIndex(Len(grid), r)]), c.x)
           THEN /\ grid' = [grid EXCEPT ![PyIndex(Len(grid), r)]
                                           [PyIndex(Len(grid[PyIndex(Len(grid), r)]), c.x)] = c.ch]
                /\ k' = k + 1
                /\ UNCHANGED <<pc, err>>
           ELSE /\ Fail("IndexError")
                /\ UNCHANGED <<grid, k>>
    /\ UNCHANGED <<resp, run, gets, i, cells, max_x, max_y, p, out, first>>

PassCell ==
    /\ pc = "populate"
    /\ k <= Len(cells)
    /\ ~InBounds(cells[k])
    /\ k' = k + 1
    /\ UNCHANGED <<resp, pc, run, gets, i, cells, max_x, max_y, grid, p, out, err, first>>

PopulateDone ==
    /\ pc = "populate"
    /\ k > Len(cells)
    /\ p' = 1
    /\ pc' = IF grid = <<>> THEN "done" ELSE "print"
    /\ UNCHANGED <<resp, run, gets, i, cells, max_x, max_y, grid, k, out, err, first>>

\* mutant: the rows are printed from the last to the first
PrintRowBottomUp ==
    /\ pc = "print"
    /\ p <= Len(grid)
    /\ out' = Append(out, Join(grid[Len(grid) - p + 1]))
    /\ p' = p + 1
    /\ pc' = IF p = Len(grid) THEN "done" ELSE "print"
    /\ UNCHANGED <<resp, run, gets, i, cells, max_x, max_y, grid, k, err, first>>

\* print("".join(row))
PrintRow ==
    /\ pc = "print"
    /\ p <= Len(grid)
    /\ out' = Append(out, Join(grid[p]))
    /\ p' = p + 1
    /\ pc' = IF p = Len(grid) THEN "done" ELSE "print"
    /\ UNCHANGED <<resp, run, gets, i, cells, max_x, max_y, grid, k, err, first>>

Ended == pc \in {"done", "failed"}

\* the program is run again on the same response.  What the first run
\* parsed and printed and how it ended is recorded; the new run starts with
\* nothing printed.  The function's locals are unbound on entry: the model leaves in
\* them whatever the first run left, so a local read before it is assigned
\* would show.
Rerun ==
    /\ Ended
    /\ run = 1
    /\ first' = [out |-> out, err |-> err, cells |-> cells]
    /\ run' = 2
    /\ pc' = "fetch"
    /\ gets' = 0
    /\ out' = <<>>
    /\ err' = "none"
    /\ UNCHANGED <<resp, i, cells, max_x, max_y, grid, k, p>>

Next ==
    \/ FetchTransportError
    \/ FetchBadStatus
    \/ FetchOk
    \/ ParseNoTable
    \/ ParseNoDataRows
    \/ ParseBegin
    \/ SkipShortRow
    \/ SkipEmptyCoord
    \/ SkipNonNumeric
    \/ AppendCell
    \/ ParseNoValidRows
    \/ BuildGrid
    \/ PlaceCell
    \/ PassCell
    \/ PopulateDone
    \/ PrintRow
    \/ Rerun

Spec == Init /\ [][Next]_vars

(* ------------------------------ claims --------------------------------- *)

Rows == resp.doc.rows

\* the parser has returned its Cells in this run
Returned == pc \in {"populate", "print", "done"}

Populated == pc \in {"print", "done"}

CellIdx == 1..Len(cells)

IsMaxX(m) == (\E j \in CellIdx : cells[j].x = m) /\ (\A j \in CellIdx : cells[j].x <= m)
IsMaxY(m) == (\E j \in CellIdx : cells[j].y = m) /\ (\A j \in CellIdx : cells[j].y <= m)

Xs == {cells[j].x : j \in CellIdx}
Ys == {cells[j].y : j \in CellIdx}

AtLeastZero(n) == IF n < 0 THEN 0 ELSE n

\* C1, as claimed: a finished run has printed exactly max_y + 1 lines of
\* exactly max_x + 1 characters each, whatever the signs of the coordinates.
C1_AsClaimed ==
    pc = "done" =>
        \A mx \in Xs, my \in Ys :
            IsMaxX(mx) /\ IsMaxY(my) =>
                /\ Len(out) = my + 1
                /\ \A l \in 1..Len(out) : Len(out[l]) = mx + 1

\* C1, amended: a finished run has printed exactly max(0, max_y + 1) lines
\* of exactly max(0, max_x + 1) characters each, max_x and max_y being the
\* maxima of x and y over the parsed Cells.
C1_LineCounts ==
    pc = "done" =>
        \A mx \in Xs, my \in Ys :
            IsMaxX(mx) /\ IsMaxY(my) =>
                /\ Len(out) = AtLeastZero(my + 1)
                /\ \A l \in 1..Len(out) : Len(out[l]) = AtLeastZero(mx + 1)

C1_Witness ==
    /\ pc = "done"
    /\ Len(out) >= 2
    /\ Len(out[1]) >= 2
    /\ \E j \in CellIdx : cells[j].x < 0

\* in a finished run every printed line l is the line of y = max_y - (l - 1):
\* at column x it shows the character of a Cell at (x, y), and where no
\* in-bounds Cell has those coordinates it shows a space.
C2_Characters ==
    pc = "done" =>
        \A l \in 1..Len(out) : \A c \in 1..Len(out[l]) :
            LET here == {j \in CellIdx : 0 <= cells[j].x /\ 0 <= cells[j].y
                                          /\ cells[j].x = c - 1
                                          /\ cells[j].y = Max(Ys) - (l - 1)}
            IN  IF here = {} THEN out[l][c] = SP
                ELSE \E j \in here : cells[j].ch = <<out[l][c]>>

\* a finished run has printed the position of every Cell with both
\* coordinates in 0..max.
C2_Positions ==
    pc = "done" =>
        \A j \in CellIdx :
            0 <= cells[j].x /\ 0 <= cells[j].y =>
                /\ Max(Ys) - cells[j].y + 1 \in 1..Len(out)
                /\ cells[j].x + 1 \in 1..Len(out[Max(Ys) - cells[j].y + 1])

\* the printed lines are the rows of the grid, row 0 first
C2_RowOrder ==
    pc = "done" =>
        /\ Len(out) = Len(grid)
        /\ \A l \in 1..Len(out) :
              /\ Len(out[l]) = Len(grid[l])
              /\ \A c \in 1..Len(out[l]) : grid[l][c] = <<out[l][c]>>

\* C2: every in-bounds Cell's position is printed, it shows the character of
\* a Cell there, every other position is blank, and the lines are the grid's
\* rows in order, row 0 (y = max_y) first.
C2_Rendering == C2_Characters /\ C2_Positions /\ C2_RowOrder

C2_Witness ==
    /\ pc = "done"
    /\ Len(out) >= 2
    /\ \E c \in 1..Len(out[1]) : out[1][c] = SP
    /\ \E c \in 1..Len(out[1]) : out[1][c] # SP
    /\ out[1] # out[2]

\* C3: once the grid is populated, the position of every in-bounds (x, y)
\* holds the character of the last Cell in table order with those
\* coordinates, and populating raised no error.
C3_LastWriteWins ==
    Populated =>
        /\ err = "none"
        /\ \A j \in CellIdx :
            (/\ 0 <= cells[j].x /\ 0 <= cells[j].y
             /\ \A n \in CellIdx :
                    n > j => ~(cells[n].x = cells[j].x /\ cells[n].y = cells[j].y))
            => grid[Max(Ys) - cells[j].y + 1][cells[j].x + 1] = cells[j].ch

\* two Cells at the same place with different characters and another Cell
\* between them
C3_Witness ==
    /\ pc = "done"
    /\ Len(cells) >= 3
    /\ cells[1].x = cells[3].x /\ cells[1].y = cells[3].y
    /\ cells[1].ch # cells[3].ch
    /\ 0 <= cells[1].x /\ 0 <= cells[1].y
    /\ ~(cells[2].x = cells[1].x /\ cells[2].y = cells[1].y)
    /\ grid[Max(Ys) - cells[3].y + 1][cells[3].x + 1] = cells[3].ch

(* texts, stated without the program's scanning *)

AllSpace(t) == \A j \in 1..Len(t) : IsSpace(t[j])

Unsigned(t) == IF t # <<>> /\ t[1] \in {"+", "-"} THEN Tail(t) ELSE t

\* an optional sign, then digits only
IsPlainDecimal(t) ==
    LET u == Unsigned(t) IN u # <<>> /\ \A j \in 1..Len(u) : u[j] \in Digits

\* an optional sign, then digits with single underscores between digits
IsIntLiteral(t) ==
    LET u == Unsigned(t) IN
    /\ u # <<>>
    /\ \A j \in 1..Len(u) : u[j] \in Digits \cup {"_"}
    /\ u[1] \in Digits /\ u[Len(u)] \in Digits
    /\ \A j \in 1..(Len(u) - 1) : ~(u[j] = "_" /\ u[j + 1] = "_")

\* the raw text without the whitespace around it
Core(raw) ==
    IF AllSpace(raw) THEN <<>>
    ELSE LET a == CHOOSE a \in 1..Len(raw) :
                      ~IsSpace(raw[a]) /\ \A j \in 1..(a - 1) : IsSpace(raw[j])
             b == CHOOSE b \in 1..Len(raw) :
                      ~IsSpace(raw[b]) /\ \A j \in (b + 1)..Len(raw) : IsSpace(raw[j])
         IN  SubSeq(raw, a, b)

RECURSIVE Pow10(_)
Pow10(n) == IF n = 0 THEN 1 ELSE 10 * Pow10(n - 1)

RECURSIVE Sum(_, _)
Sum(f, S) == IF S = {} THEN 0 ELSE LET e == CHOOSE e \in S : TRUE IN f[e] + Sum(f, S \ {e})

\* the number an integer literal denotes
LiteralValue(t) ==
    LET u  == Unsigned(t)
        ds == SelectSeq(u, LAMBDA c : c \in Digits)
        m  == Sum([j \in 1..Len(ds) |-> DigitVal(ds[j]) * Pow10(Len(ds) - j)], 1..Len(ds))
    IN  IF t[1] = "-" THEN 0 - m ELSE m

\* the rows the claim says are skipped
SkippedAsClaimed(row) ==
    \/ Len(row) < 3
    \/ AllSpace(row[1]) \/ AllSpace(row[3])
    \/ ~IsPlainDecimal(Core(row[1])) \/ ~IsPlainDecimal(Core(row[3]))

ValidRow(row) ==
    /\ Len(row) >= 3
    /\ IsIntLiteral(Core(row[1]))
    /\ IsIntLiteral(Core(row[3]))

DataIdx == 2..Len(Rows)

CellOfRow(row) ==
    Cell(LiteralValue(Core(row[1])), LiteralValue(Core(row[3])), PickChar(clean_text(row[2])))

\* the valid rows among rows 2..n
ValidUpTo(n) == {j \in 2..n : ValidRow(Rows[j])}

\* position, among the Cells, of the Cell of valid row j
Rank(j) == Cardinality({n \in ValidUpTo(j) : n <= j})

\* C5: while the rows are read and after the parser has returned, the Cells
\* are exactly those of the valid rows among rows 2..i-1, one Cell per valid
\* row and in row order; the parser returns after the last row.
C5_CellsInRowOrder ==
    /\ (pc = "rows" \/ Returned) =>
        /\ Len(cells) = Cardinality(ValidUpTo(i - 1))
        /\ \A j \in ValidUpTo(i - 1) : cells[Rank(j)] = CellOfRow(Rows[j])
    /\ Returned => i = Len(Rows) + 1

\* a header that would parse, a Cell kept twice, and Cells out of order
C5_Witness ==
    /\ Returned
    /\ ValidRow(Rows[1])
    /\ Len(cells) = 3
    /\ cells[1] = cells[3]
    /\ cells[2].x < cells[1].x
    /\ Len(Rows) = 4

\* the character the claim gives for a normalized character text
ClaimedChar(t, ch) ==
    /\ Len(ch) = 1
    /\ t = <<>> => ch = <<SP>>
    /\ Len(t) = 1 => ch = t
    /\ Len(t) > 1 =>
        \/ \E j \in 1..Len(t) :
              /\ t[j] # SP /\ ch = <<t[j]>>
              /\ \A n \in 1..(j - 1) : t[n] = SP
        \/ (\A j \in 1..Len(t) : t[j] = SP) /\ ch = <<t[1]>>

\* C6: the ch of the Cell of every valid row is one character, the one the
\* rule gives for the normalized text of the row's second cell; the raw text
\* "a " gives "a" and a raw text of spaces only gives a space.
C6_OneCharacter ==
    (pc = "rows" \/ Returned) =>
        \A j \in ValidUpTo(i - 1) :
            LET raw == Rows[j][2]
                ch  == cells[Rank(j)].ch
            IN  /\ ClaimedChar(clean_text(raw), ch)
                /\ raw = <<"a", SP>> => ch = <<"a">>
                /\ (\A n \in 1..Len(raw) : raw[n] = SP) => ch = <<SP>>

C6_Witness ==
    /\ Returned
    /\ Rows[2][2] = <<NBSP, "1", "a">>
    /\ cells[1].ch = <<"1">>

FormatErrors == {"NoTable", "NoDataRows", "NoValidRows"}

\* C7: a run whose fetch succeeded on a document with no table, or with a
\* table of fewer than 2 rows, or with no valid data row, ends with the
\* parser's format failure and nothing printed; the Cells the parser returns
\* are never empty, max() is never taken of no Cells, and a first run that
\* failed has built no grid.
C7_StructuralFailures ==
    /\ (pc \notin {"fetch", "parse", "rows"} /\ err # "FetchError") =>
        /\ ~resp.doc.table => pc = "failed" /\ err = "NoTable"
        /\ (resp.doc.table /\ Len(Rows) < 2) => pc = "failed" /\ err = "NoDataRows"
        /\ (resp.doc.table /\ Len(Rows) >= 2 /\ \A j \in DataIdx : ~ValidRow(Rows[j]))
              => pc = "failed" /\ err = "NoValidRows"
    /\ Returned => cells # <<>>
    /\ err # "MaxOfEmpty"
    /\ pc = "failed" => out = <<>>
    /\ (pc = "failed" /\ run = 1) => grid = <<>> /\ k = 0

\* a table whose data rows are all skipped
C7_Witness ==
    /\ pc = "failed"
    /\ err = "NoValidRows"
    /\ Len(Rows) >= 3

\* C8, as claimed: past the fetch exactly one GET was issued; a 2xx response
\* goes on to the parser, and every transport failure and every status
\* outside 200..299 ends the run with a fetch error and nothing printed.
C8_AsClaimed ==
    pc # "fetch" =>
        /\ gets = 1
        /\ (resp.ok /\ resp.status \in 200..299) => err # "FetchError"
        /\ (~resp.ok \/ resp.status \notin 200..299) =>
              pc = "failed" /\ err = "FetchError" /\ out = <<>>

\* C9: the second run on the same response ends as the first did: the same
\* lines printed, or the same failure, from the same Cells; nothing of the
\* first run shows in the second.
C9_SameOutcome ==
    (run = 2 /\ Ended) =>
        out = first.out /\ err = first.err /\ cells = first.cells

C9_Witness ==
    /\ run = 2
    /\ pc = "done"
    /\ Len(out) >= 2
    /\ out = first.out

\* C10: a populate step on a Cell with a negative coordinate leaves the grid
\* as it is and raises nothing; any other populate step writes the one
\* position (max_y - y, x), which lies in 0..max_y and 0..max_x; and a table with a valid row never fails for want of valid
\* rows, whatever the signs of its coordinates.
C10_WritesInBounds ==
    /\ [][(pc = "populate" /\ k <= Len(cells)) =>
            /\ pc' = "populate" /\ err' = "none"
            /\ IF cells[k].x < 0 \/ cells[k].y < 0
               THEN grid' = grid
               ELSE /\ max_y - cells[k].y \in 0..max_y
                    /\ cells[k].x \in 0..max_x
                    /\ grid' = [grid EXCEPT ![max_y - cells[k].y + 1][cells[k].x + 1] = cells[k].ch]
         ]_vars
    /\ []((\E j \in DataIdx : ValidRow(Rows[j])) => err # "NoValidRows")

\* only Cells with a negative coordinate: parsed, passed over, a line printed
C10_Witness ==
    /\ pc = "done"
    /\ cells # <<>>
    /\ \A j \in CellIdx : cells[j].x < 0 \/ cells[j].y < 0
    /\ Len(out) >= 1

====
